---------------------------- MODULE Spec2Model ----------------------------
(***************************************************************************)
(* The fixation sequencer of the eye-tracking-analysis skill:              *)
(* compute_fixation_order of generate_saliency_analysis.py, as a state     *)
(* machine.  One behaviour is one call: Init draws the arguments, the      *)
(* actions are the consecutive blocks of the function body.                *)
(*                                                                         *)
(* Three more functions of the repository follow it, each with a           *)
(* specification of its own: capture_screenshot of capture_url.py,         *)
(* backup_all_workflows of workflow-utils.py and detect_drawn_regions of   *)
(* detect_marked_regions.py.  pc is the position in whichever function     *)
(* the behaviour runs; the variables of the other functions stay parked.   *)
(*                                                                         *)
(* Coordinates are 0-based as in numpy: a peak is [y |-> row, x |-> col,   *)
(* sal |-> value]; a fixation's position is <<x, y>>.                      *)
(*                                                                         *)
(* Arithmetic.  The code scores candidates in IEEE doubles.  The first     *)
(* score is rational, so the model compares it exactly on a common         *)
(* denominator; a double carries it with relative error near 1e-15, far    *)
(* below the gap between two different rationals of this size, so doubles  *)
(* order different scores as the model does.  Two candidates whose exact   *)
(* scores are EQUAL are ordered by rounding, which the model leaves open   *)
(* (either order), except where both computations give the same double     *)
(* (a zero saliency).                                                      *)
(***************************************************************************)
EXTENDS Integers, Sequences, FiniteSets

VARIABLES saliency_map, max_fixations, min_saliency, min_distance,
          pc, remaining_peaks, fixations, fix_num

vars == <<saliency_map, max_fixations, min_saliency, min_distance,
          pc, remaining_peaks, fixations, fix_num>>

args == <<saliency_map, max_fixations, min_saliency, min_distance>>

\* capture_screenshot: its arguments, the options built, the browser driver,
\* the calls of driver.quit() made and the outcome of the call.
VARIABLES url, output_path, chrome_options, driver, quit_calls, result

capture_vars == <<url, output_path, chrome_options, driver, quit_calls, result>>

\* backup_all_workflows: the reply of the server to the listing request, the
\* locals workflows, backed_up_files and filename, the position of the loop,
\* the files of the working directory and of output_dir (name and the
\* workflow whose JSON the file holds), the clock read by datetime.now(),
\* and the workflows export_workflow was called for and os.rename moved.
VARIABLES listing, workflows, next_index, filename, backed_up_files,
          cwd, output_dir, clock, exported, moved

backup_vars == <<listing, workflows, next_index, filename, backed_up_files,
                 cwd, output_dir, clock, exported, moved>>

\* detect_drawn_regions: the shape of the marked image, the contours found,
\* the position of the loop over them, the goal boxes, and the position of
\* the contour each goal box was made from.
VARIABLES img_shape, contours, contour_index, goal_boxes, accepted

detect_vars == <<img_shape, contours, contour_index, goal_boxes, accepted>>

\* The state of compute_fixation_order apart from pc.
fixation_state == <<args, remaining_peaks, fixations, fix_num>>

\* The variables of the functions compute_fixation_order does not touch.
others == <<capture_vars, backup_vars, detect_vars>>

all_vars == <<vars, others>>

\* A behaviour of one function leaves the variables of the others parked.
CaptureIdle ==
    /\ url = ""
    /\ output_path = ""
    /\ chrome_options = <<>>
    /\ driver = "none"
    /\ quit_calls = 0
    /\ result = "none"

FixationIdle ==
    /\ saliency_map = <<>>
    /\ max_fixations = 0
    /\ min_saliency = 0
    /\ min_distance = 0
    /\ remaining_peaks = <<>>
    /\ fixations = <<>>
    /\ fix_num = 0

BackupIdle ==
    /\ listing = <<>>
    /\ workflows = <<>>
    /\ next_index = 0
    /\ filename = <<>>
    /\ backed_up_files = <<>>
    /\ cwd = {}
    /\ output_dir = {}
    /\ clock = 0
    /\ exported = <<>>
    /\ moved = <<>>

DetectIdle ==
    /\ img_shape = <<0, 0>>
    /\ contours = <<>>
    /\ contour_index = 0
    /\ goal_boxes = <<>>
    /\ accepted = <<>>

OthersIdle == CaptureIdle /\ BackupIdle /\ DetectIdle

(***************************************************************************)
(* Bounds of the model.                                                    *)
(***************************************************************************)
MaxWidth == 9
MaxGrid == 2
MaxSpots == 2
MaxFixationsArg == 3
MaxMinDistance == 2

(* The intensities a non-zero cell of a drawn map takes, and the           *)
(* thresholds tried: 0, the default 150, and one between the intensities.  *)
Intensities == {180, 200}
Thresholds == {0, 150, 190}

(***************************************************************************)
(* Generic helpers.                                                        *)
(***************************************************************************)
Max2(a, b) == IF a >= b THEN a ELSE b
Min2(a, b) == IF a <= b THEN a ELSE b
Abs(a) == IF a >= 0 THEN a ELSE -a
SetMax(S) == CHOOSE m \in S : \A e \in S : e <= m

(***************************************************************************)
(* The argument: a uint8 array, shape (h, w).  data[y][x] is               *)
(* saliency_map[y, x].                                                     *)
(***************************************************************************)
Size(m) == m.shape[1] * m.shape[2]

\* Mutant: the guard tests for None only.
IsEmptyMap_Never(m) == FALSE

\* Line 31: saliency_map.size == 0 (the model draws arrays, never None).
IsEmptyMap(m) == Size(m) = 0

RECURSIVE SubsetsUpTo(_, _)
SubsetsUpTo(S, k) ==
    IF k = 0 THEN {{}}
    ELSE LET smaller == SubsetsUpTo(S, k - 1)
         IN  smaller \cup {T \cup {e} : T \in smaller, e \in S}

\* The shapes drawn: strips of one row, up to MaxWidth wide (wider than one
\* 15 x 15 window), and grids of up to MaxGrid rows and columns; a side of
\* 0 gives the arrays of size 0.
Shapes == ((0..1) \X (0..MaxWidth)) \cup ((0..MaxGrid) \X (0..MaxGrid))

\* The maps drawn: shape (h, w), zero except at most MaxSpots cells.
MapOf(h, w, spots, val) ==
    [shape |-> <<h, w>>,
     data  |-> [y \in 0..(h - 1) |->
                  [x \in 0..(w - 1) |->
                     IF (y * w + x) \in spots THEN val[y * w + x] ELSE 0]]]

SaliencyMaps ==
    UNION {UNION {{MapOf(h, w, spots, val) : val \in [spots -> Intensities]}
                  : spots \in SubsetsUpTo(0..(h * w - 1), MaxSpots)}
           : <<h, w>> \in Shapes}

(***************************************************************************)
(* Peak extraction (lines 37-55).                                          *)
(***************************************************************************)
\* kernel = np.ones((15, 15)): the window reaches KernelReach cells each way.
KernelReach == 7

\* Mutant: a 3 x 3 window.
Dilate_Narrow(m, y, x) ==
    LET h == m.shape[1]
        w == m.shape[2]
    IN  SetMax({m.data[yy][xx] :
                   yy \in Max2(0, y - 1)..Min2(h - 1, y + 1),
                   xx \in Max2(0, x - 1)..Min2(w - 1, x + 1)})

\* cv2.dilate(saliency_map, kernel): the maximum over the window centred on
\* (y, x); cells outside the array do not take part (the default border of
\* a dilation).
Dilate(m, y, x) ==
    LET h == m.shape[1]
        w == m.shape[2]
    IN  SetMax({m.data[yy][xx] :
                   yy \in Max2(0, y - KernelReach)..Min2(h - 1, y + KernelReach),
                   xx \in Max2(0, x - KernelReach)..Min2(w - 1, x + KernelReach)})

\* Mutant: the dilation writes its result into its source (dst = src).
ArrayAfterDilate_InPlace(m) ==
    [m EXCEPT !.data = [y \in 0..(m.shape[1] - 1) |->
                          [x \in 0..(m.shape[2] - 1) |-> Dilate(m, y, x)]]]

\* Line 40: cv2.dilate(saliency_map, kernel, iterations=1) returns a new
\* array, local_max; the argument is its source only.  Nothing else in the
\* function is handed the array: lines 41-52 index and compare it.
ArrayAfterDilate(m) == m

\* Mutant: the threshold is forgotten.
IsPeak_NoThreshold(m, y, x, minSal) == m.data[y][x] = Dilate(m, y, x)

\* peaks = (saliency_map == local_max) & (saliency_map >= min_saliency)
IsPeak(m, y, x, minSal) ==
    /\ m.data[y][x] = Dilate(m, y, x)
    /\ m.data[y][x] >= minSal

\* The cell with row-major index i (0-based), as a peak record.
CellAt(m, i) ==
    LET w == m.shape[2]
    IN  [y |-> i \div w, x |-> i % w, sal |-> m.data[i \div w][i % w]]

\* np.argwhere(peaks) zipped with saliency_map[peaks]: row-major order.
PeakList(m, minSal) ==
    LET all == [i \in 1..Size(m) |-> CellAt(m, i - 1)]
        keep(p) == IsPeak(m, p.y, p.x, minSal)
    IN  SelectSeq(all, keep)

\* np.argmax(saliency_map): the first row-major index of the maximum.
ArgMax(m) ==
    LET best == SetMax({CellAt(m, i).sal : i \in 0..(Size(m) - 1)})
    IN  CHOOSE i \in 0..(Size(m) - 1) :
            /\ CellAt(m, i).sal = best
            /\ \A j \in 0..(i - 1) : CellAt(m, j).sal # best

\* Mutant: no fallback to the global maximum.
CandidatePeaks_NoFallback(m, minSal) == PeakList(m, minSal)

\* Lines 41-55: the peaks, or the global maximum alone when there are none.
CandidatePeaks(m, minSal) ==
    LET found == PeakList(m, minSal)
    IN  IF Len(found) = 0 THEN <<CellAt(m, ArgMax(m))>> ELSE found

(***************************************************************************)
(* Distances (lines 77, 103, 151).                                         *)
(***************************************************************************)
\* (c[1] - o[1])**2 + (c[0] - o[0])**2 for two peaks.
SquaredDistance(c, o) == (c.x - o.x) * (c.x - o.x) + (c.y - o.y) * (c.y - o.y)

\* Mutant: the squared distance is compared with min_distance itself.
AtLeastApart_Unsquared(c, o, minDist) == SquaredDistance(c, o) >= minDist

\* Mutant: > for >=, so a peak at exactly min_distance is dropped.
AtLeastApart_Strict(c, o, minDist) ==
    \/ minDist <= 0
    \/ SquaredDistance(c, o) > minDist * minDist

\* np.sqrt(d2) >= minDist.  The square root of an integer is correctly
\* rounded, so for an integer minDist this is the comparison of the squares.
AtLeastApart(c, o, minDist) ==
    \/ minDist <= 0
    \/ SquaredDistance(c, o) >= minDist * minDist

\* Lines 75-78 and 149-152: inhibition of return around the peak chosen.
InhibitionOfReturn(peaks, chosen, minDist) ==
    LET keep(c) == AtLeastApart(c, chosen, minDist)
    IN  SelectSeq(peaks, keep)

\* Line 144: the chosen peak leaves the pool (matched on its coordinates).
RemoveSelected(peaks, chosen) ==
    LET keep(c) == ~(c.y = chosen.y /\ c.x = chosen.x)
    IN  SelectSeq(peaks, keep)

(***************************************************************************)
(* First fixation (lines 62-85).                                           *)
(***************************************************************************)
\* Mutant: the raw saliency, without the top-left bias.
score_first_fixation_Raw(p, w, h) == p.sal

\* Mutant: the weights of the two axes exchanged.
score_first_fixation_Swapped(p, w, h) ==
    p.sal * (10 * w * h - 3 * p.y * w - 2 * p.x * h)

\* score_first_fixation: sal * (1.0 - (x / norm_w) * 0.3 - (y / norm_h) * 0.2),
\* here multiplied by the common denominator 10 * w * h of one map.
score_first_fixation(p, w, h) ==
    p.sal * (10 * w * h - 3 * p.x * h - 2 * p.y * w)

\* list.sort(key = score, reverse = True) is stable: of two equal keys the
\* one that came first stays first.
InsertByScore(sorted, e, w, h) ==
    LET k == Cardinality({i \in 1..Len(sorted) :
                 score_first_fixation(sorted[i], w, h)
                     >= score_first_fixation(e, w, h)})
    IN  SubSeq(sorted, 1, k) \o <<e>> \o SubSeq(sorted, k + 1, Len(sorted))

RECURSIVE SortByFirstScore(_, _, _)
SortByFirstScore(s, w, h) ==
    IF s = <<>> THEN <<>>
    ELSE InsertByScore(SortByFirstScore(SubSeq(s, 1, Len(s) - 1), w, h),
                       s[Len(s)], w, h)

\* The orders of a sequence.
Orderings(s) ==
    {[i \in 1..Len(s) |-> s[f[i]]] :
        f \in {g \in [1..Len(s) -> 1..Len(s)] :
                  \A i, j \in 1..Len(s) : i # j => g[i] # g[j]}}

\* What the sort can return in doubles.  Peaks of different exact score keep
\* the order of their scores.  Peaks of equal exact score and saliency 0 all
\* score 0.0 and keep their order (stability); peaks of equal, non-zero
\* exact score are ordered by the rounding of each product, either way.
RECURSIVE SortOutcomes(_, _, _)
SortOutcomes(sorted, w, h) ==
    IF sorted = <<>> THEN {<<>>}
    ELSE LET top   == score_first_fixation(sorted[1], w, h)
             n     == Cardinality({i \in 1..Len(sorted) :
                          score_first_fixation(sorted[i], w, h) = top})
             group == SubSeq(sorted, 1, n)
             heads == IF n = 1 \/ sorted[1].sal = 0
                      THEN {group} ELSE Orderings(group)
         IN  {g \o r : g \in heads,
                       r \in SortOutcomes(SubSeq(sorted, n + 1, Len(sorted)), w, h)}

\* Line 70.
SortedForFirst(peaks, w, h) == SortOutcomes(SortByFirstScore(peaks, w, h), w, h)

\* The method tags of lines 84 and 158.
FirstMethod == "highest_saliency"

\* Mutant: one tag for every fixation.
LaterMethod_Same == "highest_saliency"

LaterMethod == "weighted_saliency"

\* Mutant: the range stops one short.
InRange_OneLess(n, maxFix) == n < maxFix

\* Mutant: the range runs one further.
InRange_OneMore(n, maxFix) == n <= maxFix + 1

\* Line 88: fix_num is in range(2, max_fixations + 1).
InRange(n, maxFix) == n <= maxFix

\* Mutant: the position in the array's order, row then column.
Fixation_RowCol(n, p, tag) ==
    [order |-> n, position |-> <<p.y, p.x>>, saliency |-> p.sal, method |-> tag]

\* Mutant: ordinals counted from 0.
Fixation_ZeroBased(n, p, tag) ==
    [order |-> n - 1, position |-> <<p.x, p.y>>, saliency |-> p.sal, method |-> tag]

\* Lines 80-85 and 154-159: the record appended.
Fixation(n, p, tag) ==
    [order |-> n, position |-> <<p.x, p.y>>, saliency |-> p.sal, method |-> tag]

(***************************************************************************)
(* Subsequent fixations (lines 88-159).                                    *)
(*                                                                         *)
(* score = sal * distance_penalty * reading_bias * top_left_bias, where    *)
(* distance_penalty = exp(-3 * pixel_distance / img_diagonal) is           *)
(* irrational.  A scored peak keeps the exact parts of its score (sal, the *)
(* squared distance, the two biases as integers over a common denominator) *)
(* and a fixed-point value of the whole, to four digits.  Two peaks at the *)
(* same distance share the penalty and are compared exactly on the rest;   *)
(* two peaks at different distances are compared on the fixed-point value, *)
(* and count as ordered only when it differs by more than one percent.     *)
(* What stays undecided is left open: either peak may be the maximum.      *)
(***************************************************************************)
RECURSIVE SqrtBetween(_, _, _)
SqrtBetween(n, lo, hi) ==
    IF lo = hi THEN lo
    ELSE LET mid == (lo + hi + 1) \div 2
         IN  IF mid * mid <= n THEN SqrtBetween(n, mid, hi)
                               ELSE SqrtBetween(n, lo, mid - 1)

\* The integer square root of n, 0 <= n <= 10^8.
ISqrt(n) == SqrtBetween(n, 0, 10000)

\* Lines 103-106: normalized_distance = pixel_distance / img_diagonal, in
\* units of 1/10000; d2 is the squared pixel distance.  The quotient of the
\* squares is taken to six digits where 32 bits hold d2 * 10^6, to four
\* beyond.
normalized_distance(d2, w, h) ==
    IF d2 <= 2000
    THEN ISqrt(((d2 * 1000000) \div (w * w + h * h)) * 100)
    ELSE ISqrt(((d2 * 10000) \div (w * w + h * h)) * 10000)

RECURSIVE ExpSeries(_, _, _)
ExpSeries(t, term, k) ==
    IF term = 0 THEN 0
    ELSE term + ExpSeries(t, (term * t) \div (k * 10000), k + 1)

\* Mutant: no decay with the distance.
InversePenalty_None(n) == 10000

\* Line 110: distance_penalty = np.exp(-normalized_distance * 3.0), kept as
\* its inverse exp(3 * n) in units of 1/10000 (between 10000 and 200856).
InversePenalty(n) == ExpSeries(3 * n, 10000, 1)

\* Mutant: the two preferences exchanged.
reading_bias_Exchanged(c, fixs) ==
    IF Len(fixs) >= 2
    THEN LET last == fixs[Len(fixs)].position
             prev == fixs[Len(fixs) - 1].position
         IN  IF Abs(prev[1] - last[1]) > Abs(prev[2] - last[2])
             THEN (IF Abs(c.x - last[1]) > Abs(c.y - last[2]) THEN 12 ELSE 10)
             ELSE (IF c.y > last[2] THEN 12 ELSE 10)
    ELSE 10

\* Lines 115-127: reading_bias, in tenths (10 is 1.0, 12 is 1.2).  c is the
\* candidate; fixs the fixations so far, positions <<x, y>>.
reading_bias(c, fixs) ==
    IF Len(fixs) >= 2
    THEN LET last == fixs[Len(fixs)].position
             prev == fixs[Len(fixs) - 1].position
         IN  IF Abs(prev[1] - last[1]) > Abs(prev[2] - last[2])
             THEN (IF c.y > last[2] THEN 12 ELSE 10)
             ELSE (IF Abs(c.x - last[1]) > Abs(c.y - last[2]) THEN 12 ELSE 10)
    ELSE 10

\* Line 130: 1.0 - (x / norm_w) * 0.2 - (y / norm_h) * 0.15, times 20 * w * h.
RawTopLeftBias(c, w, h) == 20 * w * h - 4 * c.x * h - 3 * c.y * w

\* Line 131: max(0.7, top_left_bias), times 20 * w * h.
top_left_bias(c, w, h) == Max2(14 * w * h, RawTopLeftBias(c, w, h))

\* Lines 97-136: one entry of scored_peaks.
ScoredPeak(c, fixs, w, h) ==
    LET last == fixs[Len(fixs)].position
        d2   == (c.x - last[1]) * (c.x - last[1]) + (c.y - last[2]) * (c.y - last[2])
        rb   == reading_bias(c, fixs)
        tl   == top_left_bias(c, w, h)
    IN  [peak    |-> c,
         d2      |-> d2,
         rb      |-> rb,
         clamped |-> RawTopLeftBias(c, w, h) < 14 * w * h,
         factor  |-> c.sal * rb * tl,
         approx  |-> ((((c.sal * rb) * ((tl * 10000) \div (20 * w * h))) \div 10) * 700)
                         \div InversePenalty(normalized_distance(d2, w, h))]

scored_peaks(peaks, fixs, w, h) ==
    [i \in 1..Len(peaks) |-> ScoredPeak(peaks[i], fixs, w, h)]

\* a's score is the higher double.
ScoresHigher(a, b) ==
    IF a.peak.sal = 0 THEN FALSE
    ELSE IF b.peak.sal = 0 THEN TRUE
    ELSE IF a.d2 = b.d2 THEN a.factor > b.factor
    ELSE a.approx * 100 > b.approx * 101

\* a's score and b's are the same double: both 0.0, or the same operations
\* on the same operands.
ScoresSame(a, b) ==
    \/ a.peak.sal = 0 /\ b.peak.sal = 0
    \/ /\ a.d2 = b.d2
       /\ a.peak.sal = b.peak.sal
       /\ a.rb = b.rb
       /\ a.clamped /\ b.clamped

\* Mutant: of equal scores the last listed comes first.
BestIndices_LastOfTies(scored) ==
    {i \in 1..Len(scored) :
        \A j \in 1..Len(scored) :
            j # i => /\ ~ScoresHigher(scored[j], scored[i])
                     /\ ~(ScoresSame(scored[j], scored[i]) /\ j > i)}

\* Lines 139-141: scored_peaks.sort(key = score, reverse = True) and
\* scored_peaks[0]: the indices the stable sort can put first.
BestIndices(scored) ==
    {i \in 1..Len(scored) :
        \A j \in 1..Len(scored) :
            j # i => /\ ~ScoresHigher(scored[j], scored[i])
                     /\ ~(ScoresSame(scored[j], scored[i]) /\ j < i)}

(***************************************************************************)
(* State machine.                                                          *)
(***************************************************************************)
Init ==
    /\ saliency_map \in SaliencyMaps
    /\ max_fixations \in 0..MaxFixationsArg
    /\ min_saliency \in Thresholds
    /\ min_distance \in 0..MaxMinDistance
    /\ pc = "start"
    /\ remaining_peaks = <<>>
    /\ fixations = <<>>
    /\ fix_num = 2
    /\ OthersIdle

\* Lines 31-32: an array of size 0 returns [] at once.
ReturnEmpty ==
    /\ pc = "start"
    /\ IsEmptyMap(saliency_map)
    /\ pc' = "done"
    /\ UNCHANGED <<args, remaining_peaks, fixations, fix_num>>
    /\ UNCHANGED others

\* Lines 34-55: the candidate pool.  An array without cells cannot get here;
\* if it did, the dilation and np.argmax would raise on it.
FindPeaks ==
    /\ pc = "start"
    /\ ~IsEmptyMap(saliency_map)
    /\ IF Size(saliency_map) = 0
       THEN /\ pc' = "raised"
            /\ UNCHANGED <<saliency_map, remaining_peaks>>
       ELSE /\ remaining_peaks' = CandidatePeaks(saliency_map, min_saliency)
            /\ saliency_map' = ArrayAfterDilate(saliency_map)
            /\ pc' = "first"
    /\ UNCHANGED <<max_fixations, min_saliency, min_distance, fixations, fix_num>>
    /\ UNCHANGED others

\* Lines 62-85: the best-scoring peak is fixation 1, whatever max_fixations.
FirstFixation ==
    /\ pc = "first"
    /\ IF remaining_peaks # <<>>
       THEN \E sorted \in SortedForFirst(remaining_peaks,
                                         saliency_map.shape[2],
                                         saliency_map.shape[1]) :
              LET first == sorted[1]
              IN  /\ remaining_peaks' =
                        InhibitionOfReturn(Tail(sorted), first, min_distance)
                  /\ fixations' = Append(fixations,
                                         Fixation(1, first, FirstMethod))
       ELSE UNCHANGED <<remaining_peaks, fixations>>
    /\ pc' = "loop"
    /\ UNCHANGED <<args, fix_num>>
    /\ UNCHANGED others

\* Lines 88-159: one pass of the loop over fix_num that appends a fixation.
SubsequentFixation ==
    /\ pc = "loop"
    /\ InRange(fix_num, max_fixations)
    /\ remaining_peaks # <<>>
    /\ LET w      == saliency_map.shape[2]
           h      == saliency_map.shape[1]
           scored == scored_peaks(remaining_peaks, fixations, w, h)
       IN  IF scored # <<>>
           THEN \E i \in BestIndices(scored) :
                  LET best == scored[i].peak
                  IN  /\ remaining_peaks' =
                            InhibitionOfReturn(RemoveSelected(remaining_peaks, best),
                                               best, min_distance)
                      /\ fixations' = Append(fixations,
                                             Fixation(fix_num, best, LaterMethod))
           ELSE UNCHANGED <<remaining_peaks, fixations>>
    /\ fix_num' = fix_num + 1
    /\ UNCHANGED <<args, pc>>
    /\ UNCHANGED others

\* Lines 88-90 and 161: the range is used up, or the pool is empty (break).
Return ==
    /\ pc = "loop"
    /\ (~InRange(fix_num, max_fixations) \/ remaining_peaks = <<>>)
    /\ pc' = "done"
    /\ UNCHANGED <<args, remaining_peaks, fixations, fix_num>>
    /\ UNCHANGED others

Next ==
    \/ ReturnEmpty
    \/ FindPeaks
    \/ FirstFixation
    \/ SubsequentFixation
    \/ Return

Spec == Init /\ [][Next]_vars

(***************************************************************************)
(* Scenes: maps with several peaks farther apart than one 15 x 15 window,  *)
(* called with the default threshold.  The cells drawn are the corners of  *)
(* a square map (the last two where the top-left bias of line 131 is at    *)
(* its floor of 0.7) and its centre; and the map of the 100 x 100 scenario *)
(* with its own min_distance.                                              *)
(***************************************************************************)
SceneSide == 12
MaxSceneSpots == 4

\* Row-major indices of the cells a scene can light.
ScenePositions ==
    LET far == SceneSide - 1
        at(y, x) == y * SceneSide + x
    IN  {at(0, 0), at(0, far - 1), at(far - 1, 0),
         at(far - 1, far), at(far, far - 1),
         at(SceneSide \div 2, SceneSide \div 2)}

\* The scenes drawn: at least one cell lit; and the scene without cells.
SceneMaps ==
    UNION {{MapOf(SceneSide, SceneSide, spots, val) : val \in [spots -> Intensities]}
           : spots \in SubsetsUpTo(ScenePositions, MaxSceneSpots) \ {{}}}
    \cup {MapOf(0, 0, {}, <<>>)}

\* min_distance of a scene: next to the peak only, two cells, the side.
SceneDistances == {1, 2, SceneSide}

\* 100 x 100, zero except 200 at (10, 10) and 180 at (90, 90).
ScenarioMap ==
    MapOf(100, 100, {1010, 9090}, [i \in {1010, 9090} |-> IF i = 1010 THEN 200 ELSE 180])

SceneInit ==
    /\ \/ /\ saliency_map \in SceneMaps
          /\ min_distance \in SceneDistances
       \/ /\ saliency_map = ScenarioMap
          /\ min_distance = 80
    /\ max_fixations \in 2..(MaxFixationsArg + 1)
    /\ min_saliency = 150
    /\ pc = "start"
    /\ remaining_peaks = <<>>
    /\ fixations = <<>>
    /\ fix_num = 2
    /\ OthersIdle

Scenes == SceneInit /\ [][Next]_vars

(***************************************************************************)
(* Malformed arguments.  The function checks nothing itself: what happens  *)
(* to an argument that is no two-dimensional numeric array is what its     *)
(* first statements do to it.  Such an argument is drawn as                *)
(*   [kind, shape, dtype]: a nested Python list with rows of the lengths   *)
(*   in shape (ragged), or a numpy array of that shape and element type.   *)
(* pc ends at "done" (returned) or at the name of the exception raised.    *)
(***************************************************************************)
RaggedLists ==
    {[kind |-> "list", shape |-> <<a, b>>, dtype |-> "int"] :
        <<a, b>> \in {r \in (0..MaxGrid) \X (0..MaxGrid) : r[1] # r[2]}}

\* Arrays of one or three dimensions, and two-dimensional arrays of strings.
MalformedArrays ==
    {[kind |-> "ndarray", shape |-> <<n>>, dtype |-> "uint8"] : n \in 0..MaxGrid}
    \cup {[kind |-> "ndarray", shape |-> <<h, w, 3>>, dtype |-> "uint8"] :
              h \in 0..MaxGrid, w \in 0..MaxGrid}
    \cup {[kind |-> "ndarray", shape |-> <<h, w>>, dtype |-> "str"] :
              h \in 0..MaxGrid, w \in 0..MaxGrid}

MalformedGrids == RaggedLists \cup MalformedArrays

\* ndarray.size: the product of the dimensions.
RECURSIVE ShapeProduct(_)
ShapeProduct(shape) ==
    IF shape = <<>> THEN 1 ELSE Head(shape) * ShapeProduct(Tail(shape))

MalformedInit ==
    /\ saliency_map \in MalformedGrids
    /\ max_fixations \in 0..MaxFixationsArg
    /\ min_saliency \in Thresholds
    /\ min_distance \in 0..MaxMinDistance
    /\ pc = "start"
    /\ remaining_peaks = <<>>
    /\ fixations = <<>>
    /\ fix_num = 2
    /\ OthersIdle

\* Lines 31-32: saliency_map.size == 0.  A list has no attribute size; an
\* array of size 0 returns [], whatever its shape and element type.
SizeGuard ==
    /\ pc = "start"
    /\ pc' = IF saliency_map.kind = "list" THEN "AttributeError"
             ELSE IF ShapeProduct(saliency_map.shape) = 0 THEN "done"
             ELSE "sized"
    /\ UNCHANGED <<args, remaining_peaks, fixations, fix_num>>
    /\ UNCHANGED others

\* Line 34: h, w = saliency_map.shape unpacks two values or raises.
UnpackShape ==
    /\ pc = "sized"
    /\ pc' = IF Len(saliency_map.shape) = 2 THEN "unpacked" ELSE "ValueError"
    /\ UNCHANGED <<args, remaining_peaks, fixations, fix_num>>
    /\ UNCHANGED others

\* Line 40: cv2.dilate takes numeric arrays only.
DilateRejects ==
    /\ pc = "unpacked"
    /\ saliency_map.dtype = "str"
    /\ pc' = "cv2.error"
    /\ UNCHANGED <<args, remaining_peaks, fixations, fix_num>>
    /\ UNCHANGED others

MalformedNext == SizeGuard \/ UnpackShape \/ DilateRejects

Malformed == MalformedInit /\ [][MalformedNext]_vars

(***************************************************************************)
(* capture_screenshot of capture_url.py (lines 9-36).  The browser, the    *)
(* network and the file system are the environment: each call into them    *)
(* succeeds, raises an Exception (WebDriverException and the like), or is  *)
(* cut short by a BaseException that is no Exception (KeyboardInterrupt).  *)
(* result is "True" or "False" once a return statement has run and         *)
(* "exception" while an exception is on its way out of the function.       *)
(***************************************************************************)
Urls == {"https://example.com", "https://unreachable.invalid", "not a url"}

OutputPaths == {"shot.png", "/missing/shot.png"}

\* --window-size={width},{height}: the default size and another one.
WindowSizes == {"--window-size=1200,800", "--window-size=800,600"}

CallOutcomes == {"ok", "Exception", "BaseException"}

CaptureInit ==
    /\ url \in Urls
    /\ output_path \in OutputPaths
    /\ chrome_options = <<>>
    /\ driver = "none"
    /\ quit_calls = 0
    /\ result = "none"
    /\ pc = "options"
    /\ FixationIdle
    /\ BackupIdle
    /\ DetectIdle

\* Mutant: no finally clause, the handler returns at once.
AfterExcept_NoFinally == "returned"

\* Line 35: the finally clause runs after the except block.
AfterExcept == "finally"

\* Where control goes when call raises: an Exception is caught at line 32,
\* anything else goes through the finally clause and out.
AfterRaise(outcome) == IF outcome = "Exception" THEN "except" ELSE "finally"

\* Lines 13-17: the options of the headless browser.
BuildOptions ==
    /\ pc = "options"
    /\ \E size \in WindowSizes :
          chrome_options' = <<"--headless", "--no-sandbox",
                              "--disable-dev-shm-usage", size>>
    /\ pc' = "create"
    /\ UNCHANGED <<url, output_path, driver, quit_calls, result>>
    /\ UNCHANGED <<fixation_state, backup_vars, detect_vars>>

\* Lines 20-21, outside the try: the driver is installed and started, or the
\* exception leaves the function with no driver created.
CreateDriver ==
    /\ pc = "create"
    /\ \E outcome \in CallOutcomes :
          IF outcome = "ok"
          THEN driver' = "open" /\ pc' = "get" /\ UNCHANGED result
          ELSE driver' = "none" /\ pc' = "propagated" /\ result' = "exception"
    /\ UNCHANGED <<url, output_path, chrome_options, quit_calls>>
    /\ UNCHANGED <<fixation_state, backup_vars, detect_vars>>

\* Lines 24-25: driver.get(url).
Navigate ==
    /\ pc = "get"
    /\ \E outcome \in CallOutcomes :
          IF outcome = "ok"
          THEN pc' = "sleep" /\ UNCHANGED result
          ELSE /\ pc' = AfterRaise(outcome)
               /\ result' = IF outcome = "Exception" THEN result ELSE "exception"
    /\ UNCHANGED <<url, output_path, chrome_options, driver, quit_calls>>
    /\ UNCHANGED <<fixation_state, backup_vars, detect_vars>>

\* Line 27: time.sleep(3) ends, or is interrupted.
Sleep ==
    /\ pc = "sleep"
    /\ \E outcome \in {"ok", "BaseException"} :
          IF outcome = "ok"
          THEN pc' = "save_screenshot" /\ UNCHANGED result
          ELSE pc' = AfterRaise(outcome) /\ result' = "exception"
    /\ UNCHANGED <<url, output_path, chrome_options, driver, quit_calls>>
    /\ UNCHANGED <<fixation_state, backup_vars, detect_vars>>

\* Lines 29-31: driver.save_screenshot(output_path), then return True, which
\* runs the finally clause first.
SaveScreenshot ==
    /\ pc = "save_screenshot"
    /\ \E outcome \in CallOutcomes :
          IF outcome = "ok"
          THEN pc' = "finally" /\ result' = "True"
          ELSE /\ pc' = AfterRaise(outcome)
               /\ result' = IF outcome = "Exception" THEN result ELSE "exception"
    /\ UNCHANGED <<url, output_path, chrome_options, driver, quit_calls>>
    /\ UNCHANGED <<fixation_state, backup_vars, detect_vars>>

\* Lines 32-34: the handler prints and returns False.
Except ==
    /\ pc = "except"
    /\ result' = "False"
    /\ pc' = AfterExcept
    /\ UNCHANGED <<url, output_path, chrome_options, driver, quit_calls>>
    /\ UNCHANGED <<fixation_state, backup_vars, detect_vars>>

\* Lines 35-36: driver.quit().  If it raises, its exception replaces the
\* pending return; the browser may or may not have been shut down.
Finally ==
    /\ pc = "finally"
    /\ quit_calls' = quit_calls + 1
    /\ \E outcome \in {"ok", "Exception"} :
          IF outcome = "ok"
          THEN /\ driver' = "closed"
               /\ pc' = IF result = "exception" THEN "propagated" ELSE "returned"
               /\ UNCHANGED result
          ELSE /\ driver' \in {"open", "closed"}
               /\ pc' = "propagated"
               /\ result' = "exception"
    /\ UNCHANGED <<url, output_path, chrome_options>>
    /\ UNCHANGED <<fixation_state, backup_vars, detect_vars>>

CaptureNext ==
    \/ BuildOptions
    \/ CreateDriver
    \/ Navigate
    \/ Sleep
    \/ SaveScreenshot
    \/ Except
    \/ Finally

Capture == CaptureInit /\ [][CaptureNext]_all_vars

(***************************************************************************)
(* backup_all_workflows of workflow-utils.py (lines 123-143), with         *)
(* list_workflows (25-38) and export_workflow (50-63).  The server, the    *)
(* file system and the clock are the environment.  A name is a sequence    *)
(* of characters; a file name is the sanitised name and the second of the  *)
(* clock it was stamped with; a directory is a set of files, each a file   *)
(* name and the id of the workflow whose JSON it holds.                    *)
(***************************************************************************)
MaxWorkflows == 2
MaxClock == 1

\* Characters: letters and digits; the names below also use the blank,
\* which line 57 lets through, and "!", which it removes.
Letters == {"a", "b"}
Digits == {"1", "2", "3", "4"}

\* The workflow names tried: two that sanitise to "a" besides "a" itself,
\* and one that differs.
Names == {<<"a">>, <<"a", "!">>, <<"a", " ">>, <<"b">>}

\* The id of the workflow at position n of the reply.
IdAt(n) == CHOOSE d \in Digits : d = <<"1", "2", "3", "4">>[n]

\* One element of the 'data' list: a dict with an id, with or without the
\* keys 'name' and 'active'.
EntriesAt(n) ==
    {[id |-> IdAt(n), has_name |-> TRUE, name |-> nm, active |-> a] :
        nm \in Names, a \in {"true", "false", "missing"}}
    \cup {[id |-> IdAt(n), has_name |-> FALSE, name |-> <<>>, active |-> a] :
              a \in {"true", "missing"}}

RECURSIVE RepliesOfLength(_)
RepliesOfLength(n) ==
    IF n = 0 THEN {<<>>}
    ELSE {Append(r, e) : r \in RepliesOfLength(n - 1), e \in EntriesAt(n)}

\* What the listing request yields: a reply that is not a 200, or a 200
\* with the 'data' list.
Listings ==
    {[status_code |-> 500, data |-> <<>>]}
    \cup {[status_code |-> 200, data |-> r] :
              r \in UNION {RepliesOfLength(n) : n \in 0..MaxWorkflows}}

\* Line 36: [w for w in workflows if w.get('active', False)].
RECURSIVE ActiveOnly(_)
ActiveOnly(ws) ==
    IF ws = <<>> THEN <<>>
    ELSE IF Head(ws).active = "true"
         THEN <<Head(ws)>> \o ActiveOnly(Tail(ws))
         ELSE ActiveOnly(Tail(ws))

\* Line 55: workflow.get('name', f'workflow_{workflow_id}').
NameOf(w) ==
    IF w.has_name THEN w.name
    ELSE <<"w", "o", "r", "k", "f", "l", "o", "w", "_", w.id>>

\* c.isalnum() or c in (' ', '-', '_').
Kept(c) == c \in Letters \cup Digits \cup {"w", "o", "r", "k", "f", "l"}
               \cup {" ", "-", "_"}

RECURSIVE KeepChars(_)
KeepChars(name) ==
    IF name = <<>> THEN <<>>
    ELSE IF Kept(Head(name))
         THEN <<Head(name)>> \o KeepChars(Tail(name))
         ELSE KeepChars(Tail(name))

\* str.rstrip(): trailing blanks go.
RECURSIVE RStrip(_)
RStrip(name) ==
    IF name # <<>> /\ name[Len(name)] = " "
    THEN RStrip(SubSeq(name, 1, Len(name) - 1))
    ELSE name

\* Line 57.
safe_name(name) == RStrip(KeepChars(name))

\* Line 58: f"{safe_name}_{datetime.now().strftime('%Y%m%d_%H%M%S')}.json".
FileName(w, now) == [stem |-> safe_name(NameOf(w)), stamp |-> now]

\* Line 135: os.path.join(output_dir, os.path.basename(filename)); the file
\* name holds no separator, line 57 has removed them.
BackupPath(name) == [dir |-> "backups", file |-> name]

\* open(name, 'w') and os.rename onto name: the file of that name, if any,
\* is replaced.
WriteFile(directory, name, content) ==
    {f \in directory : f.name # name} \cup {[name |-> name, holds |-> content]}

RemoveFile(directory, name) == {f \in directory : f.name # name}

BackupInit ==
    /\ listing \in Listings
    /\ workflows = <<>>
    /\ next_index = 0
    /\ filename = [stem |-> <<>>, stamp |-> 0]
    /\ backed_up_files = <<>>
    /\ cwd = {}
    /\ output_dir = {}
    /\ clock = 0
    /\ exported = <<>>
    /\ moved = <<>>
    /\ pc = "list"
    /\ FixationIdle
    /\ CaptureIdle
    /\ DetectIdle

\* Lines 126-129 (and 28-38): the listing request.  Without a 200 reply
\* list_workflows raises and the exception leaves backup_all_workflows.
ListWorkflows ==
    /\ pc = "list"
    /\ IF listing.status_code # 200
       THEN pc' = "propagated" /\ UNCHANGED <<workflows, next_index>>
       ELSE /\ workflows' = ActiveOnly(listing.data)
            /\ next_index' = 1
            /\ pc' = "for"
    /\ UNCHANGED <<listing, filename, backed_up_files, cwd, output_dir,
                   clock, exported, moved>>
    /\ UNCHANGED <<fixation_state, capture_vars, detect_vars>>

\* Lines 131-133 (and 52-63): export_workflow for the next workflow.  The
\* clock may have moved on since it was last read.  The request or the
\* write may fail; the exception is caught at line 140.
ExportWorkflow ==
    /\ pc = "for"
    /\ next_index <= Len(workflows)
    /\ LET workflow == workflows[next_index]
       IN  /\ exported' = Append(exported, workflow.id)
           /\ \E now \in {t \in {clock, clock + 1} : t <= MaxClock} :
                 /\ clock' = now
                 /\ \E outcome \in {"ok", "Exception"} :
                       IF outcome = "ok"
                       THEN /\ filename' = FileName(workflow, now)
                            /\ cwd' = WriteFile(cwd, FileName(workflow, now),
                                                workflow.id)
                            /\ pc' = "rename"
                       ELSE /\ pc' = "except"
                            /\ UNCHANGED <<filename, cwd>>
    /\ UNCHANGED <<listing, workflows, next_index, backed_up_files,
                   output_dir, moved>>
    /\ UNCHANGED <<fixation_state, capture_vars, detect_vars>>

\* Lines 135-137: the file moves into output_dir, replacing a file of the
\* same name there, and its path is appended; or os.rename fails (where the
\* platform refuses to replace a file, or for any other reason).
MoveToBackupDir ==
    /\ pc = "rename"
    /\ LET workflow == workflows[next_index]
       IN  \E outcome \in {"ok", "Exception"} :
              IF outcome = "ok"
              THEN /\ output_dir' = WriteFile(output_dir, filename, workflow.id)
                   /\ cwd' = RemoveFile(cwd, filename)
                   /\ backed_up_files' =
                         Append(backed_up_files, BackupPath(filename))
                   /\ moved' = Append(moved, workflow.id)
                   /\ pc' = "print"
              ELSE /\ pc' = "except"
                   /\ UNCHANGED <<output_dir, cwd, backed_up_files, moved>>
    /\ UNCHANGED <<listing, workflows, next_index, filename, clock, exported>>
    /\ UNCHANGED <<fixation_state, capture_vars, detect_vars>>

\* Line 138: print(f"... {workflow['name']}"), inside the try: a dict
\* without the key raises KeyError, caught at line 140.
ReportBackedUp ==
    /\ pc = "print"
    /\ IF workflows[next_index].has_name
       THEN pc' = "for" /\ next_index' = next_index + 1
       ELSE pc' = "except" /\ UNCHANGED next_index
    /\ UNCHANGED <<listing, workflows, filename, backed_up_files, cwd,
                   output_dir, clock, exported, moved>>
    /\ UNCHANGED <<fixation_state, capture_vars, detect_vars>>

\* Lines 140-141: the handler prints workflow['name'] too; its KeyError is
\* raised outside any try and leaves the function.
ReportFailed ==
    /\ pc = "except"
    /\ IF workflows[next_index].has_name
       THEN pc' = "for" /\ next_index' = next_index + 1
       ELSE pc' = "propagated" /\ UNCHANGED next_index
    /\ UNCHANGED <<listing, workflows, filename, backed_up_files, cwd,
                   output_dir, clock, exported, moved>>
    /\ UNCHANGED <<fixation_state, capture_vars, detect_vars>>

\* Line 143: the loop is over.
ReturnBackedUp ==
    /\ pc = "for"
    /\ next_index > Len(workflows)
    /\ pc' = "returned"
    /\ UNCHANGED backup_vars
    /\ UNCHANGED <<fixation_state, capture_vars, detect_vars>>

BackupNext ==
    \/ ListWorkflows
    \/ ExportWorkflow
    \/ MoveToBackupDir
    \/ ReportBackedUp
    \/ ReportFailed
    \/ ReturnBackedUp

Backup == BackupInit /\ [][BackupNext]_all_vars

(***************************************************************************)
(* detect_drawn_regions of detect_marked_regions.py, the loop over the     *)
(* contours and the return (lines 101-163).  What cv2.findContours found   *)
(* is the input: each contour is its area (cv2.contourArea) and its        *)
(* bounding rectangle (cv2.boundingRect), which lies inside the image.     *)
(* The marked image is 400 wide and 150 high.  Contour i lies in cell i of *)
(* a grid of 50 x 50 cells, eight to a row, so that contours of the first  *)
(* column and row touch the left and top borders and those of the last     *)
(* column and row can touch the right and bottom ones; a wide contour has  *)
(* its corner at (i, i) instead.                                           *)
(***************************************************************************)
MaxContours == 22
MaxPattern == 2

min_area == 500
max_boxes == 20
padding == 5

ImageShape == <<150, 400>>

\* The kinds of contour: blobs at the top right and at the bottom left of
\* their cell, noise, two outlines just below and at min_area, and two wide arcs whose
\* bounding rectangles cover exactly half of the image and a little more.
ContourKinds ==
    {[place |-> "cell", dx |-> 10, dy |-> 0,  w |-> 40,  h |-> 40,  area |-> 1200],
     [place |-> "cell", dx |-> 0,  dy |-> 10, w |-> 40,  h |-> 40,  area |-> 900],
     [place |-> "cell", dx |-> 20, dy |-> 20, w |-> 10,  h |-> 10,  area |-> 50],
     [place |-> "cell", dx |-> 5,  dy |-> 5,  w |-> 30,  h |-> 30,  area |-> 499],
     [place |-> "cell", dx |-> 5,  dy |-> 5,  w |-> 30,  h |-> 30,  area |-> 500],
     [place |-> "wide", dx |-> 0,  dy |-> 0,  w |-> 300, h |-> 100, area |-> 9000],
     [place |-> "wide", dx |-> 0,  dy |-> 0,  w |-> 301, h |-> 100, area |-> 9000]}

\* Contour i of the list, of the given kind, in an image of the given shape.
ContourAt(i, kind, shape) ==
    LET per_row == shape[2] \div 50
    IN  [area |-> kind.area,
         x    |-> IF kind.place = "cell"
                  THEN ((i - 1) % per_row) * 50 + kind.dx ELSE i,
         y    |-> IF kind.place = "cell"
                  THEN ((i - 1) \div per_row) * 50 + kind.dy ELSE i,
         w    |-> kind.w,
         h    |-> kind.h]

\* The lists of contours tried: a pattern of kinds, either repeated or
\* followed by more contours of its last kind.
Patterns == UNION {[1..n -> ContourKinds] : n \in 1..MaxPattern}

ContourLists(shape) ==
    {[i \in 1..n |-> ContourAt(i, p[((i - 1) % Len(p)) + 1], shape)] :
        n \in 0..MaxContours, p \in Patterns}
    \cup {[i \in 1..n |-> ContourAt(i, p[Min2(i, Len(p))], shape)] :
              n \in 0..MaxContours, p \in Patterns}

DetectInit ==
    /\ img_shape = ImageShape
    /\ contours \in ContourLists(img_shape)
    /\ contour_index = 1
    /\ goal_boxes = <<>>
    /\ accepted = <<>>
    /\ pc = "for contour"
    /\ FixationIdle
    /\ CaptureIdle
    /\ BackupIdle

\* Line 110: area < min_area.
TooSmall(contour) == contour.area < min_area

\* Lines 117-118: (w * h) > img_area * 0.5; the product by 0.5 is exact.
TooLarge(contour, shape) == 2 * (contour.w * contour.h) > shape[1] * shape[2]

\* Lines 122-126: the rectangle grown by the padding and clipped.
PaddedBox(contour, shape) ==
    LET x == Max2(0, contour.x - padding)
        y == Max2(0, contour.y - padding)
    IN  <<x, y,
          Min2(shape[2] - x, contour.w + 2 * padding),
          Min2(shape[1] - y, contour.h + 2 * padding)>>

\* Mutant: the region is numbered by the position of its contour.
RegionNumber_FromIndex(i, boxes) == i

\* Line 129: f"Region {len(goal_boxes) + 1}".
RegionNumber(i, boxes) == Len(boxes) + 1

\* Lines 107-111: a contour below min_area is skipped.
SkipSmall ==
    /\ pc = "for contour"
    /\ contour_index <= Len(contours)
    /\ TooSmall(contours[contour_index])
    /\ contour_index' = contour_index + 1
    /\ UNCHANGED <<img_shape, contours, goal_boxes, accepted, pc>>
    /\ UNCHANGED <<fixation_state, capture_vars, backup_vars>>

\* Lines 114-119: a bounding rectangle over half of the image is skipped.
SkipLarge ==
    /\ pc = "for contour"
    /\ contour_index <= Len(contours)
    /\ ~TooSmall(contours[contour_index])
    /\ TooLarge(contours[contour_index], img_shape)
    /\ contour_index' = contour_index + 1
    /\ UNCHANGED <<img_shape, contours, goal_boxes, accepted, pc>>
    /\ UNCHANGED <<fixation_state, capture_vars, backup_vars>>

\* Lines 121-140: the padded box is appended under the next region name;
\* with max_boxes boxes the loop is left.
AddRegion ==
    /\ pc = "for contour"
    /\ contour_index <= Len(contours)
    /\ ~TooSmall(contours[contour_index])
    /\ ~TooLarge(contours[contour_index], img_shape)
    /\ goal_boxes' =
          Append(goal_boxes,
                 [name |-> <<"Region", RegionNumber(contour_index, goal_boxes)>>,
                  box  |-> PaddedBox(contours[contour_index], img_shape)])
    /\ accepted' = Append(accepted, contour_index)
    /\ contour_index' = contour_index + 1
    /\ pc' = IF Len(goal_boxes) + 1 >= max_boxes THEN "after loop" ELSE pc
    /\ UNCHANGED <<img_shape, contours>>
    /\ UNCHANGED <<fixation_state, capture_vars, backup_vars>>

\* Line 106: no contour is left.
ContoursExhausted ==
    /\ pc = "for contour"
    /\ contour_index > Len(contours)
    /\ pc' = "after loop"
    /\ UNCHANGED detect_vars
    /\ UNCHANGED <<fixation_state, capture_vars, backup_vars>>

\* Lines 142-147: without a box the function returns None.
ReturnNone ==
    /\ pc = "after loop"
    /\ Len(goal_boxes) = 0
    /\ pc' = "returned None"
    /\ UNCHANGED detect_vars
    /\ UNCHANGED <<fixation_state, capture_vars, backup_vars>>

\* Lines 149-163: the boxes are saved and returned.
ReturnGoalBoxes ==
    /\ pc = "after loop"
    /\ Len(goal_boxes) # 0
    /\ pc' = "returned goal_boxes"
    /\ UNCHANGED detect_vars
    /\ UNCHANGED <<fixation_state, capture_vars, backup_vars>>

DetectNext ==
    \/ SkipSmall
    \/ SkipLarge
    \/ AddRegion
    \/ ContoursExhausted
    \/ ReturnNone
    \/ ReturnGoalBoxes

Detect == DetectInit /\ [][DetectNext]_all_vars

(***************************************************************************)
(* Properties of the returned sequence.  The helpers below restate peaks,  *)
(* distances and scores from the cells of the map, apart from the          *)
(* operators of the model.                                                 *)
(***************************************************************************)
Returned == pc = "done"

\* A fixation is selected and the pool filtered around it.
Selected == pc = "loop"

\* The cells of the map, as <<y, x>>, and the value of one.
CellsOf(m) == (0..(m.shape[1] - 1)) \X (0..(m.shape[2] - 1))
Value(m, c) == m.data[c[1]][c[2]]
CellOfFixation(f) == <<f.position[2], f.position[1]>>

\* The squared Euclidean distance of two cells.
Gap(c, d) == (c[1] - d[1]) * (c[1] - d[1]) + (c[2] - d[2]) * (c[2] - d[2])

AllZero(m) == \A c \in CellsOf(m) : Value(m, c) = 0

\* c reaches the threshold and is a maximum of the 15 x 15 window centred
\* on it, clipped at the border.
Qualifies(m, c, minSal) ==
    /\ Value(m, c) >= minSal
    /\ \A d \in CellsOf(m) :
          (Abs(d[1] - c[1]) <= KernelReach /\ Abs(d[2] - c[2]) <= KernelReach)
              => Value(m, d) <= Value(m, c)

Qualifying(m, minSal) == {c \in CellsOf(m) : Qualifies(m, c, minSal)}

NoneQualifies(m, minSal) == ~\E c \in CellsOf(m) : Qualifies(m, c, minSal)

\* The first cell, in row-major order, that holds the maximum of the map.
IsFirstGlobalMax(m, c) ==
    /\ c \in CellsOf(m)
    /\ \A d \in CellsOf(m) :
          /\ Value(m, d) <= Value(m, c)
          /\ (d[1] < c[1] \/ (d[1] = c[1] /\ d[2] < c[2]))
                => Value(m, d) < Value(m, c)

\* c is a candidate peak: it qualifies, or nothing does and c is the
\* fallback cell.
IsCandidate(m, c, minSal) ==
    \/ Qualifies(m, c, minSal)
    \/ (IsFirstGlobalMax(m, c) /\ NoneQualifies(m, minSal))

\* Two qualifying peaks, and no more, closer than minDist to each other.
TwoClosePeaks(m, minSal, minDist) ==
    LET q == Qualifying(m, minSal)
    IN  /\ Cardinality(q) = 2
        /\ \E c, d \in q : c # d /\ Gap(c, d) < minDist * minDist

\* C1: any two fixations of the returned sequence are at Euclidean distance
\* >= min_distance; and a map with just two qualifying peaks, closer than
\* min_distance, returns a sequence of length 1.
C1_PairwiseMinDistance ==
    Returned =>
      /\ \A i, j \in 1..Len(fixations) :
            i < j => \/ min_distance <= 0
                     \/ Gap(CellOfFixation(fixations[i]), CellOfFixation(fixations[j]))
                            >= min_distance * min_distance
      /\ Len(fixations) # 1
            => ~TwoClosePeaks(saliency_map, min_saliency, min_distance)

\* C1 witness: two qualifying peaks of non-zero saliency closer than
\* min_distance, room for more fixations, and one fixation returned.
C1_Witness ==
    /\ Returned
    /\ max_fixations >= 2
    /\ Len(fixations) = 1
    /\ TwoClosePeaks(saliency_map, min_saliency, min_distance)
    /\ \A c \in Qualifying(saliency_map, min_saliency) : Value(saliency_map, c) > 0

\* C2: for a positive max_fixations the returned sequence has at most
\* max_fixations fixations.
C2_LengthBound ==
    (Returned /\ max_fixations >= 1) => Len(fixations) <= max_fixations

\* C2 witness: the bound, not the pool, ended the sequence.
C2_Witness ==
    /\ Returned
    /\ max_fixations >= 2
    /\ Len(fixations) = max_fixations
    /\ remaining_peaks # <<>>

\* C3 (as claimed): with max_fixations <= 0 the returned sequence is empty.
C3_EmptyWhenMaxNotPositive ==
    (Returned /\ max_fixations <= 0) => fixations = <<>>

\* C4 (as claimed): an all-zero map of at least one cell, with any threshold
\* and a positive max_fixations, returns exactly one fixation, of saliency 0.
C4_AllZeroOneFixation ==
    (Returned /\ Size(saliency_map) >= 1 /\ AllZero(saliency_map)
              /\ max_fixations >= 1)
    => (Len(fixations) = 1 /\ fixations[1].saliency = 0)

\* C4 (amended): an all-zero map of at least one cell, with a positive
\* max_fixations, returns at least one fixation and only fixations of
\* saliency 0; with min_saliency >= 1 it returns exactly one.
C4_AllZeroAmended ==
    (Returned /\ Size(saliency_map) >= 1 /\ AllZero(saliency_map)
              /\ max_fixations >= 1)
    => /\ Len(fixations) >= 1
       /\ \A i \in 1..Len(fixations) : fixations[i].saliency = 0
       /\ min_saliency >= 1 => Len(fixations) = 1

\* C4 witness: an all-zero map of several cells, a positive threshold, room
\* for more fixations, one fixation returned.
C4_Witness ==
    /\ Returned
    /\ Size(saliency_map) >= 2
    /\ AllZero(saliency_map)
    /\ min_saliency >= 1
    /\ max_fixations >= 2
    /\ Len(fixations) = 1
    /\ fixations[1].saliency = 0

\* C5 (as claimed): once a fixation is selected, no candidate at exactly
\* min_distance from it is left in the pool.
C5_TieDiscarded ==
    (Selected /\ fixations # <<>>) =>
      \A i \in 1..Len(remaining_peaks) :
          Gap(CellOfFixation(fixations[Len(fixations)]),
              <<remaining_peaks[i].y, remaining_peaks[i].x>>)
              # min_distance * min_distance

\* c is no fixation and at distance >= minDist from every fixation of fixs.
ClearOf(c, fixs, minDist) ==
    \A i \in 1..Len(fixs) :
        /\ CellOfFixation(fixs[i]) # c
        /\ minDist <= 0 \/ Gap(CellOfFixation(fixs[i]), c) >= minDist * minDist

\* C5 (amended): after each selection the pool holds exactly the candidate
\* peaks that are no fixation and are at distance >= min_distance from every
\* fixation selected so far: a candidate closer than min_distance to the new
\* fixation is discarded, one at exactly min_distance stays.
C5_PoolAfterInhibition ==
    (Selected /\ fixations # <<>>) =>
      LET left == {<<remaining_peaks[i].y, remaining_peaks[i].x>> :
                      i \in 1..Len(remaining_peaks)}
      IN  /\ \A c \in left :
                /\ ClearOf(c, fixations, min_distance)
                /\ IsCandidate(saliency_map, c, min_saliency)
          /\ \A c \in CellsOf(saliency_map) \ left :
                \/ ~ClearOf(c, fixations, min_distance)
                \/ ~IsCandidate(saliency_map, c, min_saliency)

\* C5 witness: two consecutive fixations of the returned sequence are at
\* exactly min_distance > 0 from each other, so the candidate at the tie was
\* kept and selected next.
C5_Witness ==
    /\ Returned
    /\ min_distance >= 1
    /\ \E i \in 1..(Len(fixations) - 1) :
          /\ fixations[i].saliency > 0
          /\ Gap(CellOfFixation(fixations[i]), CellOfFixation(fixations[i + 1]))
                = min_distance * min_distance

\* C6: the order fields of the returned sequence are 1, 2, ..., its length.
C6_OrdinalsConsecutive ==
    Returned => \A i \in 1..Len(fixations) : fixations[i].order = i

\* C6 witness: a sequence of three fixations.
C6_Witness == Returned /\ Len(fixations) = 3

\* C7: the first fixation is tagged highest_saliency and every later one
\* weighted_saliency.
C7_MethodTags ==
    Returned =>
      \A i \in 1..Len(fixations) :
          fixations[i].method =
              IF i = 1 THEN "highest_saliency" ELSE "weighted_saliency"

\* C7 witness: a sequence with a later fixation.
C7_Witness ==
    /\ Returned
    /\ Len(fixations) >= 2
    /\ fixations[2].method = "weighted_saliency"

\* C8: a map of zero area returns the empty sequence at once: nothing is
\* computed, nothing raised, whatever the other arguments.
C8_EmptyMapReturnsEmpty ==
    (saliency_map.shape[1] = 0 \/ saliency_map.shape[2] = 0)
    => /\ pc \in {"start", "done"}
       /\ fixations = <<>>
       /\ remaining_peaks = <<>>

\* C8 witness: a call with a zero-area map and a positive max_fixations has
\* returned.
C8_Witness ==
    /\ Returned
    /\ saliency_map.shape = <<0, 0>>
    /\ max_fixations >= 1
    /\ fixations = <<>>

\* C9: when no cell of a non-empty map qualifies, the candidate pool is the
\* first global-maximum cell alone and the call returns exactly one
\* fixation, at that cell; every non-empty map returns at least one.
C9_Fallback ==
    Size(saliency_map) >= 1 =>
      /\ Returned => Len(fixations) >= 1
      /\ pc = "first" =>
            \/ /\ Len(remaining_peaks) = 1
               /\ IsFirstGlobalMax(saliency_map,
                     <<remaining_peaks[1].y, remaining_peaks[1].x>>)
               /\ remaining_peaks[1].sal =
                     saliency_map.data[remaining_peaks[1].y][remaining_peaks[1].x]
            \/ ~NoneQualifies(saliency_map, min_saliency)
      /\ Returned =>
            \/ /\ Len(fixations) = 1
               /\ IsFirstGlobalMax(saliency_map, CellOfFixation(fixations[1]))
            \/ ~NoneQualifies(saliency_map, min_saliency)

\* C9 witness: the maximum is below the threshold and held by two cells, the
\* call had room for more fixations and returned one, not at the origin.
C9_Witness ==
    /\ Returned
    /\ NoneQualifies(saliency_map, min_saliency)
    /\ max_fixations >= 2
    /\ Len(fixations) = 1
    /\ fixations[1].saliency > 0
    /\ fixations[1].position # <<0, 0>>
    /\ \E c, d \in CellsOf(saliency_map) :
          /\ c # d
          /\ Value(saliency_map, c) = fixations[1].saliency
          /\ Value(saliency_map, d) = fixations[1].saliency

\* intensity * (1 - 0.3 * (x / width) - 0.2 * (y / height)) of the cell
\* <<y, x>>, times 10 * width * height.
BiasedIntensity(m, c) ==
    Value(m, c)
      * (10 * m.shape[2] * m.shape[1] - 3 * c[2] * m.shape[1] - 2 * c[1] * m.shape[2])

\* C10: the first fixation is a candidate peak, and no candidate peak has a
\* strictly higher intensity * (1 - 0.3 * x / width - 0.2 * y / height).
C10_FirstMaximisesScore ==
    (Returned /\ fixations # <<>>) =>
      LET first == CellOfFixation(fixations[1])
      IN  /\ IsCandidate(saliency_map, first, min_saliency)
          /\ \A c \in CellsOf(saliency_map) :
                \/ BiasedIntensity(saliency_map, c) <= BiasedIntensity(saliency_map, first)
                \/ ~IsCandidate(saliency_map, c, min_saliency)

\* C10 witness: the first fixation was preferred to a candidate of higher
\* raw intensity.
C10_Witness ==
    /\ Returned
    /\ fixations # <<>>
    /\ \E c \in CellsOf(saliency_map) :
          /\ Value(saliency_map, c) > fixations[1].saliency
          /\ Qualifies(saliency_map, c, min_saliency)
          /\ BiasedIntensity(saliency_map, c)
                < BiasedIntensity(saliency_map, CellOfFixation(fixations[1]))

\* Two qualifying peaks, and no more, at least minDist from each other.
TwoDistantPeaks(m, minSal, minDist) ==
    LET q == Qualifying(m, minSal)
    IN  /\ Cardinality(q) = 2
        /\ \A c, d \in q : c # d => (minDist <= 0 \/ Gap(c, d) >= minDist * minDist)

\* C11: the 100 x 100 map with 200 at (10, 10) and 180 at (90, 90), called
\* with min_saliency 150, min_distance 80 and max_fixations >= 2, returns two
\* fixations, at (10, 10) then at (90, 90); and whenever just two cells
\* qualify, at least min_distance apart, and max_fixations >= 2, the call
\* returns both, the one of higher first-fixation score first.
C11_TwoDistantPeaks ==
    (Returned /\ max_fixations >= 2) =>
      /\ (saliency_map = ScenarioMap /\ min_saliency = 150 /\ min_distance = 80)
            => /\ Len(fixations) = 2
               /\ fixations[1].position = <<10, 10>>
               /\ fixations[2].position = <<90, 90>>
      /\ \/ /\ Len(fixations) = 2
            /\ fixations[1].position # fixations[2].position
            /\ Qualifies(saliency_map, CellOfFixation(fixations[1]), min_saliency)
            /\ Qualifies(saliency_map, CellOfFixation(fixations[2]), min_saliency)
            /\ BiasedIntensity(saliency_map, CellOfFixation(fixations[1]))
                  >= BiasedIntensity(saliency_map, CellOfFixation(fixations[2]))
         \/ ~TwoDistantPeaks(saliency_map, min_saliency, min_distance)

\* C11 witness: the call of the scenario has returned its two fixations.
C11_Witness ==
    /\ Returned
    /\ saliency_map = ScenarioMap
    /\ min_distance = 80
    /\ Len(fixations) = 2
    /\ fixations[1].position = <<10, 10>>
    /\ fixations[2].position = <<90, 90>>

C14_MalformedIsInvalidInput ==
    pc \notin {"start", "sized", "unpacked"}
        => (pc = "InvalidInput" /\ fixations = <<>>)

\* C15: every returned fixation has position <<x, y>> with x a column index
\* in 0..width-1 and y a row index in 0..height-1, and its saliency is an
\* integer in 0..255, the value of the map at row y, column x.
C15_PositionAndSaliency ==
    Returned =>
      \A i \in 1..Len(fixations) :
          /\ fixations[i].position[1] \in 0..(saliency_map.shape[2] - 1)
          /\ fixations[i].position[2] \in 0..(saliency_map.shape[1] - 1)
          /\ fixations[i].saliency \in 0..255
          /\ fixations[i].saliency =
                saliency_map.data[fixations[i].position[2]][fixations[i].position[1]]

\* C15 witness: a returned fixation on a lit cell whose column index is no
\* row index of the map.
C15_Witness ==
    /\ Returned
    /\ \E i \in 1..Len(fixations) :
          /\ fixations[i].position[1] >= saliency_map.shape[1]
          /\ fixations[i].saliency > 0

\* c is the cell of one of the fixations fixs.
IsFixated(c, fixs) == \E i \in 1..Len(fixs) : CellOfFixation(fixs[i]) = c

\* c is closer than minDist to one of the fixations fixs.
IsInhibited(c, fixs, minDist) ==
    \E i \in 1..Len(fixs) : Gap(CellOfFixation(fixs[i]), c) < minDist * minDist

\* C16: for max_fixations >= 1 the call returns only with max_fixations
\* fixations or with an empty pool; and when it returns fewer than
\* max_fixations, every candidate peak is a returned fixation or lies
\* closer than min_distance to one.
C16_StopsOnlyWhenDone ==
    (Returned /\ max_fixations >= 1) =>
      /\ Len(fixations) = max_fixations \/ remaining_peaks = <<>>
      /\ Len(fixations) < max_fixations =>
            \A c \in CellsOf(saliency_map) :
                \/ IsFixated(c, fixations)
                \/ (min_distance > 0 /\ IsInhibited(c, fixations, min_distance))
                \/ ~IsCandidate(saliency_map, c, min_saliency)

\* C16 witness: a call with room for three fixations returned two, and a
\* candidate peak that is none of them.
C16_Witness ==
    /\ Returned
    /\ max_fixations >= 3
    /\ Len(fixations) = 2
    /\ \E c \in CellsOf(saliency_map) :
          /\ IsCandidate(saliency_map, c, min_saliency)
          /\ ~IsFixated(c, fixations)

\* The cells of a pool of peaks.
PoolCells(peaks) == {<<peaks[i].y, peaks[i].x>> : i \in 1..Len(peaks)}

\* exp(-t) for 0 <= t <= 3, t and the result in units of 1/10000: the
\* series of exp(-t / 8) to the fourth power of t / 8, squared three times.
DecayOfEighth(u) ==
    LET t2 == (u * u) \div 20000
        t3 == (t2 * u) \div 30000
        t4 == (t3 * u) \div 40000
    IN  10000 - u + t2 - t3 + t4

SquareOf(x) == (x * x) \div 10000

Decay(t) == SquareOf(SquareOf(SquareOf(DecayOfEighth(t \div 8))))

\* intensity * distancePenalty * readingBias * topLeftBias of the cell c
\* after the fixations fixs, with topLeftBias =
\* max(0.7, 1 - 0.2 * x / width - 0.15 * y / height) and distancePenalty =
\* exp(-3 * distance / diagonal): the squared distance from the last
\* fixation, the product of the other three factors (times 200 * width *
\* height), and the whole product in fixed point.
WeightedScore(m, c, fixs) ==
    LET h    == m.shape[1]
        w    == m.shape[2]
        d2   == Gap(c, CellOfFixation(fixs[Len(fixs)]))
        bias == Max2(14 * w * h, 20 * w * h - 4 * c[2] * h - 3 * c[1] * w)
        rb   == reading_bias([y |-> c[1], x |-> c[2], sal |-> Value(m, c)], fixs)
    IN  [d2    |-> d2,
         exact |-> Value(m, c) * rb * bias,
         fixed |-> ((((Value(m, c) * rb) * ((bias * 10000) \div (20 * w * h))) \div 1000)
                       * Decay(3 * normalized_distance(d2, w, h))) \div 1000]

\* b's weighted score is higher than a's: exactly at equal distances, by
\* more than one percent otherwise.
Outscores(m, b, a, fixs) ==
    LET sb == WeightedScore(m, b, fixs)
        sa == WeightedScore(m, a, fixs)
    IN  IF Value(m, b) = 0 THEN FALSE
        ELSE IF Value(m, a) = 0 THEN TRUE
        ELSE IF sb.d2 = sa.d2 THEN sb.exact > sa.exact
        ELSE sb.fixed * 100 > sa.fixed * 101

\* C17: a step that appends fixation n >= 2 takes it from the pool, no
\* candidate of the pool has a higher intensity * distancePenalty *
\* readingBias * topLeftBias, and the pool it leaves is the old pool without
\* the new fixation and without the candidates closer than min_distance to
\* it.
C17_NextMaximisesScore ==
    [][(Len(fixations) >= 1 /\ Len(fixations') = Len(fixations) + 1) =>
          LET chosen == CellOfFixation(fixations'[Len(fixations')])
              pool   == PoolCells(remaining_peaks)
          IN  /\ chosen \in pool
              /\ \A c \in pool : ~Outscores(saliency_map, c, chosen, fixations)
              /\ PoolCells(remaining_peaks') =
                    {c \in pool : /\ c # chosen
                                  /\ \/ min_distance <= 0
                                     \/ Gap(c, chosen) >= min_distance * min_distance}
      ]_vars

\* C17 witness: fixation 2 was chosen where the top-left bias is at its
\* floor, against a lit candidate that fixation 1 had left in the pool and
\* that fixation 2 then removed.
C17_Witness ==
    /\ Returned
    /\ Len(fixations) >= 2
    /\ LET h == saliency_map.shape[1]
           w == saliency_map.shape[2]
           second == CellOfFixation(fixations[2])
       IN  /\ 20 * w * h - 4 * second[2] * h - 3 * second[1] * w < 14 * w * h
           /\ \E c \in CellsOf(saliency_map) :
                 /\ Qualifies(saliency_map, c, min_saliency)
                 /\ Value(saliency_map, c) > 0
                 /\ c # second
                 /\ Gap(c, CellOfFixation(fixations[1])) >= min_distance * min_distance
                 /\ Gap(c, second) < min_distance * min_distance

\* The move between the last two fixations of fixs, as <<|dx|, |dy|>>.
LastMove(fixs) ==
    <<Abs(fixs[Len(fixs) - 1].position[1] - fixs[Len(fixs)].position[1]),
      Abs(fixs[Len(fixs) - 1].position[2] - fixs[Len(fixs)].position[2])>>

\* C18: for every candidate left when a fixation is to be chosen, the
\* reading bias is 1.0 or 1.2; it is 1.0 with fewer than two fixations so
\* far; after a move with |dx| > |dy| it is 1.2 exactly for the candidates
\* in a row below the last fixation; after a move with |dy| > |dx| it is 1.2
\* exactly for the candidates whose horizontal offset from the last
\* fixation exceeds their vertical offset.
C18_ReadingBias ==
    Selected =>
      \A i \in 1..Len(remaining_peaks) :
          LET c  == remaining_peaks[i]
              rb == reading_bias(c, fixations)
          IN  /\ rb \in {10, 12}
              /\ Len(fixations) < 2 => rb = 10
              /\ Len(fixations) >= 2 =>
                    LET move == LastMove(fixations)
                        last == fixations[Len(fixations)].position
                    IN  /\ move[1] > move[2] => (rb = 12 <=> c.y > last[2])
                        /\ move[2] > move[1] =>
                              (rb = 12 <=> Abs(c.x - last[1]) > Abs(c.y - last[2]))

\* C18 witness: after a move more vertical than horizontal a lit candidate
\* is left whose horizontal offset exceeds its vertical offset.
C18_Witness ==
    /\ Selected
    /\ Len(fixations) >= 2
    /\ LastMove(fixations)[2] > LastMove(fixations)[1]
    /\ \E i \in 1..Len(remaining_peaks) :
          /\ remaining_peaks[i].sal > 0
          /\ reading_bias(remaining_peaks[i], fixations) = 12
          /\ Abs(remaining_peaks[i].x - fixations[Len(fixations)].position[1])
                > Abs(remaining_peaks[i].y - fixations[Len(fixations)].position[2])

\* C19: when some cell holds the maximum of its 15 x 15 window (clipped at
\* the border) and reaches min_saliency, the peaks extracted are exactly the
\* cells that do, every returned fixation is one of them and none has a
\* saliency below min_saliency.
C19_PeakExtraction ==
    /\ pc = "first" =>
          \/ /\ \A c \in PoolCells(remaining_peaks) :
                    Qualifies(saliency_map, c, min_saliency)
             /\ \A c \in CellsOf(saliency_map) \ PoolCells(remaining_peaks) :
                    ~Qualifies(saliency_map, c, min_saliency)
          \/ NoneQualifies(saliency_map, min_saliency)
    /\ Returned =>
          \/ \A i \in 1..Len(fixations) :
                /\ fixations[i].saliency >= min_saliency
                /\ Qualifies(saliency_map, CellOfFixation(fixations[i]), min_saliency)
          \/ NoneQualifies(saliency_map, min_saliency)

\* C19 witness: a lit cell reaches the threshold and is the largest of its
\* 3 x 3 neighbourhood, but not of its 15 x 15 window; the call returned
\* and the cell is no fixation.
C19_Witness ==
    /\ Returned
    /\ fixations # <<>>
    /\ min_saliency > 0
    /\ \E c \in CellsOf(saliency_map) :
          /\ Value(saliency_map, c) >= min_saliency
          /\ ~Qualifies(saliency_map, c, min_saliency)
          /\ \A d \in CellsOf(saliency_map) :
                Gap(c, d) <= 2 => Value(saliency_map, d) <= Value(saliency_map, c)
          /\ ~IsFixated(c, fixations)

\* The cell a comes before the cell b in row-major order, or is b.
RowMajorLeq(a, b) == a[1] < b[1] \/ (a[1] = b[1] /\ a[2] <= b[2])

\* The top-left bias of later fixations is at its floor of 0.7 on the cell c.
AtFloor(m, c) ==
    20 * m.shape[2] * m.shape[1] - 4 * c[2] * m.shape[1] - 3 * c[1] * m.shape[2]
        < 14 * m.shape[2] * m.shape[1]

\* The cells a and b get the same score, as doubles, when the next fixation
\* is chosen after fixs.  For the first fixation: both of intensity 0.  For
\* a later one: both of intensity 0, or the same intensity, distance from
\* the last fixation and reading bias, and the top-left bias at its floor
\* on both.
SameScore(m, a, b, fixs) ==
    \/ Value(m, a) = 0 /\ Value(m, b) = 0
    \/ /\ fixs # <<>>
       /\ Value(m, a) = Value(m, b)
       /\ WeightedScore(m, a, fixs).d2 = WeightedScore(m, b, fixs).d2
       /\ WeightedScore(m, a, fixs).exact = WeightedScore(m, b, fixs).exact
       /\ AtFloor(m, a) /\ AtFloor(m, b)

\* C20 (as claimed): at every selection, first or later, the cell selected
\* comes first in row-major order among the candidates of the pool that
\* share its score.
C20_TieRowMajor ==
    [][Len(fixations') = Len(fixations) + 1 =>
          LET chosen == CellOfFixation(fixations'[Len(fixations')])
          IN  \A c \in PoolCells(remaining_peaks) :
                  SameScore(saliency_map, c, chosen, fixations)
                      => RowMajorLeq(chosen, c)
      ]_vars

\* C20 (amended): among the candidates that share its score, the cell
\* selected is the first in the pool's list: the first in row-major order
\* for the first fixation; for a later fixation one of highest
\* first-fixation score, and the first in row-major order among those of
\* intensity 0.
C20_TieListOrder ==
    [][Len(fixations') = Len(fixations) + 1 =>
          LET chosen == CellOfFixation(fixations'[Len(fixations')])
          IN  \A c \in PoolCells(remaining_peaks) :
                  SameScore(saliency_map, c, chosen, fixations) =>
                      /\ BiasedIntensity(saliency_map, chosen)
                            >= BiasedIntensity(saliency_map, c)
                      /\ (fixations = <<>> \/ Value(saliency_map, c) = 0)
                            => RowMajorLeq(chosen, c)
      ]_vars

\* C20 witness: fixation 2 was chosen among two lit candidates of one score,
\* and it is the later of the two in row-major order.
C20_Witness ==
    /\ Returned
    /\ Len(fixations) >= 2
    /\ fixations[2].saliency > 0
    /\ \E c \in CellsOf(saliency_map) :
          /\ c # CellOfFixation(fixations[2])
          /\ RowMajorLeq(c, CellOfFixation(fixations[2]))
          /\ Qualifies(saliency_map, c, min_saliency)
          /\ Gap(c, CellOfFixation(fixations[1])) >= min_distance * min_distance
          /\ SameScore(saliency_map, c, CellOfFixation(fixations[2]), <<fixations[1]>>)
(***************************************************************************)
(* capture_screenshot.                                                     *)
(***************************************************************************)
\* C21: once the driver has been created, driver.quit() is called exactly
\* once before capture_screenshot returns, on the path that returns True
\* and on the path that returns False; none of the calls is made before the
\* body of the try has ended, and no return leaves the driver open.
C21_QuitExactlyOnce ==
    /\ quit_calls <= 1
    /\ pc \in {"get", "sleep", "save_screenshot", "except"} =>
          (quit_calls = 0 /\ driver = "open")
    /\ pc = "returned" =>
          /\ quit_calls = 1
          /\ driver = "closed"
          /\ result \in {"True", "False"}
    /\ (pc = "propagated" /\ driver # "none") => quit_calls = 1

\* C21 witness: the call returned False, after an exception in the body, and
\* the driver has been quit.
C21_Witness ==
    /\ pc = "returned"
    /\ result = "False"
    /\ quit_calls = 1
    /\ driver = "closed"


(***************************************************************************)
(* backup_all_workflows.                                                   *)
(***************************************************************************)
\* The ids of the entries of the reply whose 'active' is true, in the order
\* of the reply.
ActiveIds(reply) ==
    LET RECURSIVE Ids(_)
        Ids(r) == IF r = <<>> THEN <<>>
                  ELSE IF Head(r).active = "true"
                       THEN <<Head(r).id>> \o Ids(Tail(r))
                       ELSE Ids(Tail(r))
    IN  Ids(reply)

\* s is t with some elements left out.
IsSubSeq(s, t) ==
    LET RECURSIVE Sub(_, _)
        Sub(a, b) == IF a = <<>> THEN TRUE
                     ELSE IF b = <<>> THEN FALSE
                     ELSE IF Head(a) = Head(b) THEN Sub(Tail(a), Tail(b))
                     ELSE Sub(a, Tail(b))
    IN  Sub(s, t)

Ended == pc \in {"returned", "propagated"}

\* C22: a failed listing leaves the call by an exception with nothing
\* exported; otherwise the call returns, export_workflow has been called for
\* every active workflow of the listing and for no other, in listing order,
\* whatever failed on the way, and the list returned holds one path in
\* output_dir for each workflow whose export and move succeeded, in listing
\* order.
C22_EveryActiveAttempted ==
    Ended =>
      IF listing.status_code # 200
      THEN pc = "propagated" /\ exported = <<>> /\ cwd = {} /\ output_dir = {}
      ELSE /\ pc = "returned"
           /\ exported = ActiveIds(listing.data)
           /\ IsSubSeq(moved, exported)
           /\ Len(backed_up_files) = Len(moved)
           /\ \A i \in 1..Len(backed_up_files) : backed_up_files[i].dir = "backups"

\* C23: the paths returned by one call are pairwise distinct, and every
\* workflow that was exported and moved has its own file in output_dir at
\* the end: none has been replaced by the backup of another workflow.
C23_BackupsDistinct ==
    pc = "returned" =>
      /\ \A i, j \in 1..Len(backed_up_files) :
            i # j => backed_up_files[i] # backed_up_files[j]
      /\ \A k \in 1..Len(moved) : \E f \in output_dir : f.holds = moved[k]

(***************************************************************************)
(* detect_drawn_regions.                                                   *)
(***************************************************************************)
\* C24: whatever contours have been processed, there are at most 20 goal
\* boxes; box k is named Region k; every box [x, y, w, h] lies inside the
\* image; and the contour a box was made from has an area of at least 500
\* and a bounding rectangle of at most half of the image area.
C24_GoalBoxes ==
    /\ Len(goal_boxes) <= 20
    /\ Len(accepted) = Len(goal_boxes)
    /\ \A k \in 1..Len(goal_boxes) :
          LET box  == goal_boxes[k].box
              from == contours[accepted[k]]
          IN  /\ goal_boxes[k].name = <<"Region", k>>
              /\ box[1] >= 0
              /\ box[2] >= 0
              /\ box[1] + box[3] <= img_shape[2]
              /\ box[2] + box[4] <= img_shape[1]
              /\ from.area >= 500
              /\ 2 * (from.w * from.h) <= img_shape[1] * img_shape[2]

\* C24 witness: the loop stopped at the twentieth box with a contour still
\* unread; a contour was skipped before the last box was made; one box was
\* clipped at the left border and one at the bottom border.
C24_Witness ==
    /\ pc = "returned goal_boxes"
    /\ Len(goal_boxes) = 20
    /\ contour_index <= Len(contours)
    /\ accepted[20] > 20
    /\ \E k \in 1..20 :
          /\ goal_boxes[k].box[1] = 0
          /\ contours[accepted[k]].x < 5
    /\ \E k \in 1..20 :
          /\ goal_boxes[k].box[2] + goal_boxes[k].box[4] = img_shape[1]
          /\ goal_boxes[k].box[4] < contours[accepted[k]].h + 10

=============================================================================
